---- MODULE Spec2Model ----
(***************************************************************************)
(* Model of app.py: a Streamlit script that is re-executed from top to     *)
(* bottom on every user interaction.  Each action below is one complete    *)
(* script run (a "rerun"): the API-key check, the guarded session          *)
(* initialisation, the upload/extraction step and the handler of the       *)
(* button that triggered the run.                                          *)
(*                                                                         *)
(* Text is modelled as a sequence of tokens; a token is a one-character    *)
(* string (" ", "\n", "a") or a fixed literal of the source.  The emoji    *)
(* that the source puts in front of some literals are left out of the      *)
(* token names (the module is ASCII).                                      *)
(***************************************************************************)
EXTENDS Integers, Sequences, FiniteSets, TLC

VARIABLES
  GROQ_API_KEY,    \* TRUE iff os.getenv("GROQ_API_KEY") is set      (line 16)
  GEMINI_API_KEY,  \* TRUE iff os.getenv("GEMINI_API_KEY") is set    (line 17)
  phase,           \* "boot" before the first run, "stopped" after st.stop(), "running"
  error_shown,     \* TRUE iff st.error(...) of line 20 was emitted
  session_state,   \* st.session_state: a function from the keys present to values
  uploaded_files,  \* value of the file_uploader widget: a sequence of PDFs
  pdf_text,        \* pdf_text of line 127 (<<>> while nothing is uploaded)
  request,         \* the request handed to the provider SDK in this run
  response,        \* what the provider call of this run did: completion or exception
  ret,             \* what ask_groq / ask_gemini did in this run: return or raise
  report,          \* the elements export_to_pdf built in this run
  last             \* which script run happened last

vars == <<GROQ_API_KEY, GEMINI_API_KEY, phase, error_shown, session_state,
          uploaded_files, pdf_text, request, response, ret, report, last>>

(***************************************************************************)
(* Bounds of the model.                                                    *)
(***************************************************************************)
MaxHistory == 3   \* chat_history is not grown beyond this length
MaxQA == 2        \* qa_list is not grown beyond this length
MaxFiles == 2     \* PDFs per upload in the ingestion specification
MaxPages == 2     \* pages per PDF in the ingestion specification

(***************************************************************************)
(* Text helpers.                                                           *)
(***************************************************************************)
Whitespace == {" ", "\n"}

RECURSIVE LStrip(_)
LStrip(s) == IF s # <<>> /\ Head(s) \in Whitespace THEN LStrip(Tail(s)) ELSE s

RECURSIVE RStrip(_)
RStrip(s) ==
  IF s # <<>> /\ s[Len(s)] \in Whitespace THEN RStrip(SubSeq(s, 1, Len(s) - 1)) ELSE s

\* str.strip()
Strip(s) == RStrip(LStrip(s))

\* a variant of Strip that removes trailing whitespace only
StripRightOnly(s) == RStrip(s)

(***************************************************************************)
(* Document Ingestor, lines 32-38.  A PDF is a sequence of pages; a page   *)
(* is what page.extract_text() returns: None or a text.                    *)
(***************************************************************************)
NonePage == [none |-> TRUE, text |-> <<>>]
TextPage(t) == [none |-> FALSE, text |-> t]

\* page.extract_text() or ""
OrEmpty(page) == IF page.none \/ page.text = <<>> THEN <<>> ELSE page.text

\* the inner loop of line 36-37, started with the text accumulated so far
RECURSIVE PagesLoop(_, _)
PagesLoop(text, pages) ==
  IF pages = <<>> THEN text
  ELSE PagesLoop(text \o OrEmpty(Head(pages)), Tail(pages))

\* the outer loop of line 34, started with the text accumulated so far
RECURSIVE FilesLoop(_, _)
FilesLoop(text, files) ==
  IF files = <<>> THEN text
  ELSE FilesLoop(PagesLoop(text, Head(files)), Tail(files))

\* a variant of the ingestor that strips only the right end
extract_text_no_lstrip(files) == StripRightOnly(FilesLoop(<<>>, files))

extract_text_from_pdfs(files) == Strip(FilesLoop(<<>>, files))

(***************************************************************************)
(* Startup, lines 16-29.                                                   *)
(***************************************************************************)
\* a variant of the key check that refuses when either key is missing
NoKeysEither(groq, gemini) == ~groq \/ ~gemini

\* line 19: not GROQ_API_KEY and not GEMINI_API_KEY
NoKeys(groq, gemini) == ~groq /\ ~gemini

\* lines 24-25: the global name `client` exists iff the Groq key is set
ClientDefined(groq) == groq

\* lines 28-29: genai.configure ran iff the Gemini key is set
GeminiConfigured(gemini) == gemini

(***************************************************************************)
(* Session state, lines 105-109.                                           *)
(***************************************************************************)
EmptySession == <<>>

SystemMessage ==
  [role |-> "system", content |-> <<"You are a helpful research assistant.">>]

Has(ss, key) == key \in DOMAIN ss

\* st.session_state.get(key, default)
Get(ss, key, default) == IF Has(ss, key) THEN ss[key] ELSE default

\* st.session_state[key] = value
Put(ss, key, value) == [k \in (DOMAIN ss) \cup {key} |-> IF k = key THEN value ELSE ss[k]]

\* lines 105-109
SessionInit(ss) ==
  LET s1 == IF ~Has(ss, "chat_history")
            THEN Put(ss, "chat_history", <<SystemMessage>>) ELSE ss
  IN  IF ~Has(s1, "qa_list") THEN Put(s1, "qa_list", <<>>) ELSE s1

(***************************************************************************)
(* Provider Gateway, lines 41-63.                                          *)
(***************************************************************************)
GroqTag == "Groq Error: "       \* the literal of line 52
GeminiTag == "Gemini Error: "   \* the literal of line 63

\* the texts a provider may generate, and the messages of the exceptions
Outputs == {<<"A">>, <<"B", "\n", "c">>}
NameErrorText == <<"name 'client' is not defined">>
ApiErrorText == <<"Connection error.">>

NoCall == [kind |-> "none", value |-> <<>>]
Returned(v) == [kind |-> "return", value |-> v]
Raised(v) == [kind |-> "raise", value |-> v]

NoRequest == [provider |-> "none"]
NoResponse == [provider |-> "none", raised |-> FALSE, exc |-> "", sent |-> FALSE, text |-> <<>>]

\* what evaluating the try-block of ask_groq can lead to (lines 43-47): with
\* no `client` global the name lookup raises NameError, otherwise the SDK
\* call returns a completion or raises
GroqOutcomes(groq) ==
  IF ~ClientDefined(groq)
  THEN {[provider |-> "Groq", raised |-> TRUE, exc |-> "NameError", sent |-> FALSE,
          text |-> NameErrorText]}
  ELSE {[provider |-> "Groq", raised |-> FALSE, exc |-> "", sent |-> TRUE, text |-> o] :
          o \in Outputs}
       \cup {[provider |-> "Groq", raised |-> TRUE, exc |-> "APIError", sent |-> TRUE,
               text |-> ApiErrorText]}

\* what the try-block of ask_gemini can lead to (lines 57-59): an
\* unconfigured SDK raises on generate_content
GeminiOutcomes(gemini) ==
  IF ~GeminiConfigured(gemini)
  THEN {[provider |-> "Gemini", raised |-> TRUE, exc |-> "APIError", sent |-> TRUE,
          text |-> ApiErrorText]}
  ELSE {[provider |-> "Gemini", raised |-> FALSE, exc |-> "", sent |-> TRUE, text |-> o] :
          o \in Outputs}
       \cup {[provider |-> "Gemini", raised |-> TRUE, exc |-> "APIError", sent |-> TRUE,
               text |-> ApiErrorText]}

\* a variant of the handler clause that catches SDK errors only
CatchesApiErrorOnly(exc) == exc = "APIError"

\* `except Exception` (lines 51, 62): NameError and the SDK errors are Exceptions
Catches(exc) == exc \in {"NameError", "APIError"}

\* a variant that submits the prompt without the stored messages
GroqMessagesPromptOnly(history, prompt) == <<[role |-> "user", content |-> prompt]>>

\* line 45: st.session_state["chat_history"] + [{"role": "user", "content": prompt}]
GroqMessages(history, prompt) == history \o <<[role |-> "user", content |-> prompt]>>

\* line 58: generate_content(prompt); the stored messages are not used
GeminiContents(history, prompt) == prompt

\* a variant that stores the completion under the system role
AppendAsSystem(history, output) ==
  Append(history, [role |-> "system", content |-> output])

\* a variant that stores the completion in front of the other messages
InsertAssistantFirst(history, output) ==
  <<[role |-> "assistant", content |-> output]>> \o history

\* lines 49, 60: chat_history.append({"role": "assistant", "content": output})
AppendAssistant(history, output) ==
  Append(history, [role |-> "assistant", content |-> output])

\* a variant of the except branch that also stores the error string
HistoryAfterErrorAppending(history, errorString) ==
  AppendAssistant(history, errorString)

\* lines 51-52, 62-63: the except branch leaves chat_history as it is
HistoryAfterError(history, errorString) == history

\* line 52: f"... Groq Error: {str(e)}"
GroqErrorString(text) == <<GroqTag>> \o text

\* line 63: f"... Gemini Error: {str(e)}"
GeminiErrorString(text) == <<GeminiTag>> \o text

\* a variant that also stores the user prompt
PersistPrompt(history, prompt, output) ==
  AppendAssistant(Append(history, [role |-> "user", content |-> prompt]), output)

\* the messages stored by a successful call: the completion, not the prompt
StoreCompletion(history, prompt, output) == AppendAssistant(history, output)

\* lines 41-52
ask_groq(history, prompt, model_choice, outcome) ==
  LET req == IF outcome.sent
             THEN [provider |-> "Groq", model |-> model_choice,
                   messages |-> GroqMessages(history, prompt), max_tokens |-> 800]
             ELSE NoRequest
  IN  IF ~outcome.raised
      THEN [chat_history |-> StoreCompletion(history, prompt, outcome.text),
            ret |-> Returned(outcome.text), request |-> req]
      ELSE IF Catches(outcome.exc)
      THEN [chat_history |-> HistoryAfterError(history, GroqErrorString(outcome.text)),
            ret |-> Returned(GroqErrorString(outcome.text)), request |-> req]
      ELSE [chat_history |-> history, ret |-> Raised(outcome.text), request |-> req]

\* lines 55-63
ask_gemini(history, prompt, model_choice, outcome) ==
  LET req == [provider |-> "Gemini", model |-> model_choice,
              contents |-> GeminiContents(history, prompt)]
  IN  IF ~outcome.raised
      THEN [chat_history |-> StoreCompletion(history, prompt, outcome.text),
            ret |-> Returned(outcome.text), request |-> req]
      ELSE IF Catches(outcome.exc)
      THEN [chat_history |-> HistoryAfterError(history, GeminiErrorString(outcome.text)),
            ret |-> Returned(GeminiErrorString(outcome.text)), request |-> req]
      ELSE [chat_history |-> history, ret |-> Raised(outcome.text), request |-> req]

\* the options of the selectbox, lines 112-121, each split at " - "
ModelChoices ==
  { <<"Groq", " - ", "llama-3.3-70b-versatile">>,
    <<"Groq", " - ", "llama-3.1-8b-instant">>,
    <<"Gemini", " - ", "gemini-1.5-flash">>,
    <<"Gemini", " - ", "gemini-1.5-pro">> }

\* model_choice.startswith(prefix)
StartsWith(choice, prefix) == choice[1] = prefix

\* model_choice.split(" - ")[1]
ModelClean(choice) == choice[3]

\* the outcomes of the provider call run_model leads to
Outcomes(choice, groq, gemini) ==
  IF StartsWith(choice, "Groq") THEN GroqOutcomes(groq) ELSE GeminiOutcomes(gemini)

\* lines 132-138
run_model(history, prompt, choice, outcome) ==
  IF StartsWith(choice, "Groq")
  THEN ask_groq(history, prompt, ModelClean(choice), outcome)
  ELSE ask_gemini(history, prompt, ModelClean(choice), outcome)

\* line 144
SummaryPrompt(text) ==
  <<"Summarize the following text in bullet points:", "\n", "\n">> \o text

\* line 155
AnswerPrompt(text, query) ==
  <<"Answer the following question based on the text:", "\n", "\n", "Text: ">>
    \o text \o <<"\n", "\n", "Question: ">> \o query

(***************************************************************************)
(* Report Exporter, lines 66-96.  The report is the list `elements` that   *)
(* is handed to doc.build.                                                 *)
(***************************************************************************)
Paragraph(text, style) == [type |-> "Paragraph", style |-> style, text |-> text, height |-> 0]
Spacer(height) == [type |-> "Spacer", style |-> "", text |-> <<>>, height |-> height]

SummaryTitle == <<"SUMMARY">>                 \* line 81
HistoryTitle == <<"CONVERSATION HISTORY">>    \* line 90
FullTextTitle == <<"FULL TEXT">>              \* line 92
QuestionLabel == "Q: "                        \* line 84
AnswerLabel == "A: "                          \* line 84

\* content.split("\n"): the lines of a text, as a sequence
RECURSIVE SplitLines(_, _)
SplitLines(current, rest) ==
  IF rest = <<>> THEN <<current>>
  ELSE IF Head(rest) = "\n" THEN <<current>> \o SplitLines(<<>>, Tail(rest))
  ELSE SplitLines(Append(current, Head(rest)), Tail(rest))

\* lines 75-77: one Normal paragraph per line that is not blank
RECURSIVE LineParagraphs(_)
LineParagraphs(lines) ==
  IF lines = <<>> THEN <<>>
  ELSE (IF Strip(Head(lines)) # <<>> THEN <<Paragraph(Head(lines), "Normal")>> ELSE <<>>)
       \o LineParagraphs(Tail(lines))

\* lines 72-78
add_block(elements, title, content) ==
  elements
    \o <<Paragraph(<<"<b>">> \o title \o <<"</b>">>, "Heading2"), Spacer(6)>>
    \o LineParagraphs(SplitLines(<<>>, content))
    \o <<Spacer(12)>>

\* lines 83-84
RECURSIVE QABlocks(_, _)
QABlocks(elements, qa_list) ==
  IF qa_list = <<>> THEN elements
  ELSE QABlocks(add_block(elements, <<QuestionLabel>> \o Head(qa_list)[1],
                          <<AnswerLabel>> \o Head(qa_list)[2]),
                Tail(qa_list))

\* lines 86-89
RECURSIVE HistText(_, _)
HistText(hist_text, history) ==
  IF history = <<>> THEN hist_text
  ELSE HistText(hist_text
                  \o <<IF Head(history).role = "user" THEN "You" ELSE "Assistant", ": ">>
                  \o Head(history).content \o <<"<br/>">>,
                Tail(history))

\* lines 66-96
export_to_pdf(summary, qa_list, history, full_text) ==
  LET e1 == IF summary # <<>> THEN add_block(<<>>, SummaryTitle, summary) ELSE <<>>
      e2 == IF qa_list # <<>> THEN QABlocks(e1, qa_list) ELSE e1
      e3 == IF history # <<>>
            THEN add_block(e2, HistoryTitle, HistText(<<>>, history)) ELSE e2
      e4 == IF full_text # <<>> THEN add_block(e3, FullTextTitle, full_text) ELSE e3
  IN  [built |-> TRUE, elements |-> e4]

NoReport == [built |-> FALSE, elements |-> <<>>]

(***************************************************************************)
(* Script runs.                                                            *)
(***************************************************************************)
\* the questions typed into the text_input of line 152
Queries == {<<>>, <<"q">>}

\* a page yields None, a text with whitespace around it, or a text
PageTexts == {NonePage, TextPage(<<" ", "a">>), TextPage(<<"b", "\n">>)}

SeqsUpTo(S, n) == UNION {[1..k -> S] : k \in 0..n}

\* the uploads of the ingestion specification
Uploads == SeqsUpTo(SeqsUpTo(PageTexts, MaxPages), MaxFiles)

\* the uploads of a session: nothing, a PDF without text, a two-page PDF
SessionUploads ==
  { <<>>,
    << <<NonePage>> >>,
    << <<TextPage(<<" ", "a">>), TextPage(<<"b", "\n">>)>> >> }

chat_history == Get(session_state, "chat_history", <<>>)
qa_list == Get(session_state, "qa_list", <<>>)

\* line 127: pdf_text exists only under `if uploaded_files`
PdfText(files) == IF files # <<>> THEN extract_text_from_pdfs(files) ELSE <<>>

Init ==
  /\ GROQ_API_KEY \in BOOLEAN
  /\ GEMINI_API_KEY \in BOOLEAN
  /\ phase = "boot"
  /\ error_shown = FALSE
  /\ session_state = EmptySession
  /\ uploaded_files = <<>>
  /\ pdf_text = <<>>
  /\ request = NoRequest
  /\ response = NoResponse
  /\ ret = NoCall
  /\ report = NoReport
  /\ last = "boot"

\* lines 19-21: a run without any key shows the error and stops
Refuse ==
  /\ NoKeys(GROQ_API_KEY, GEMINI_API_KEY)
  /\ phase' = "stopped"
  /\ error_shown' = TRUE
  /\ last' = "refuse"
  /\ UNCHANGED <<GROQ_API_KEY, GEMINI_API_KEY, session_state, uploaded_files,
                 pdf_text, request, response, ret, report>>

\* a run that passes line 19 and in which no button was pressed: the first
\* page load, a change of the selectbox, typing a question
Rerun ==
  /\ ~NoKeys(GROQ_API_KEY, GEMINI_API_KEY)
  /\ phase' = "running"
  /\ session_state' = SessionInit(session_state)
  /\ pdf_text' = PdfText(uploaded_files)
  /\ request' = NoRequest
  /\ response' = NoResponse
  /\ ret' = NoCall
  /\ report' = NoReport
  /\ last' = "rerun"
  /\ UNCHANGED <<GROQ_API_KEY, GEMINI_API_KEY, error_shown, uploaded_files>>

\* the run that follows a change of the file_uploader, lines 124-128
UploadFrom(S) ==
  /\ ~NoKeys(GROQ_API_KEY, GEMINI_API_KEY)
  /\ phase = "running"
  /\ \E files \in S :
       /\ uploaded_files' = files
       /\ pdf_text' = PdfText(files)
  /\ session_state' = SessionInit(session_state)
  /\ request' = NoRequest
  /\ response' = NoResponse
  /\ ret' = NoCall
  /\ report' = NoReport
  /\ last' = "upload"
  /\ UNCHANGED <<GROQ_API_KEY, GEMINI_API_KEY, phase, error_shown>>

Upload == UploadFrom(SessionUploads)

\* the run of the "Generate Summary" button, lines 142-148
GenerateSummary ==
  /\ ~NoKeys(GROQ_API_KEY, GEMINI_API_KEY)
  /\ phase = "running"
  /\ uploaded_files # <<>>
  /\ Len(chat_history) < MaxHistory
  /\ \E choice \in ModelChoices :
       \E outcome \in Outcomes(choice, GROQ_API_KEY, GEMINI_API_KEY) :
         LET ss == SessionInit(session_state)
             text == PdfText(uploaded_files)
             r == run_model(ss["chat_history"], SummaryPrompt(text), choice, outcome)
         IN  /\ pdf_text' = text
             /\ request' = r.request
             /\ response' = outcome
             /\ ret' = r.ret
             /\ session_state' =
                  IF r.ret.kind = "return"
                  THEN Put(Put(ss, "chat_history", r.chat_history), "summary", r.ret.value)
                  ELSE Put(ss, "chat_history", r.chat_history)
  /\ report' = NoReport
  /\ last' = "summary"
  /\ UNCHANGED <<GROQ_API_KEY, GEMINI_API_KEY, phase, error_shown, uploaded_files>>

\* a variant of line 156 that records completions only
AppendQAOnSuccess(qa, query, answer) ==
  IF answer[1] \in {GroqTag, GeminiTag} THEN qa ELSE Append(qa, <<query, answer>>)

\* line 156: st.session_state["qa_list"].append((query, answer))
AppendQA(qa, query, answer) == Append(qa, <<query, answer>>)

\* the run of the "Get Answer" button, lines 153-159
GetAnswer ==
  /\ ~NoKeys(GROQ_API_KEY, GEMINI_API_KEY)
  /\ phase = "running"
  /\ uploaded_files # <<>>
  /\ Len(chat_history) < MaxHistory
  /\ Len(qa_list) < MaxQA
  /\ \E choice \in ModelChoices, query \in Queries :
       \E outcome \in Outcomes(choice, GROQ_API_KEY, GEMINI_API_KEY) :
         LET ss == SessionInit(session_state)
             text == PdfText(uploaded_files)
             r == run_model(ss["chat_history"], AnswerPrompt(text, query), choice, outcome)
         IN  /\ pdf_text' = text
             /\ request' = r.request
             /\ response' = outcome
             /\ ret' = r.ret
             /\ session_state' =
                  IF r.ret.kind = "return"
                  THEN Put(Put(ss, "chat_history", r.chat_history),
                           "qa_list", AppendQA(ss["qa_list"], query, r.ret.value))
                  ELSE Put(ss, "chat_history", r.chat_history)
  /\ report' = NoReport
  /\ last' = "ask"
  /\ UNCHANGED <<GROQ_API_KEY, GEMINI_API_KEY, phase, error_shown, uploaded_files>>

\* the run of the "Download Everything as PDF" button, lines 173-178
Export ==
  /\ ~NoKeys(GROQ_API_KEY, GEMINI_API_KEY)
  /\ phase = "running"
  /\ uploaded_files # <<>>
  /\ LET ss == SessionInit(session_state)
         text == PdfText(uploaded_files)
     IN  /\ pdf_text' = text
         /\ session_state' = ss
         /\ report' = export_to_pdf(Get(ss, "summary", <<>>), Get(ss, "qa_list", <<>>),
                                    ss["chat_history"], text)
  /\ request' = NoRequest
  /\ response' = NoResponse
  /\ ret' = NoCall
  /\ last' = "export"
  /\ UNCHANGED <<GROQ_API_KEY, GEMINI_API_KEY, phase, error_shown, uploaded_files>>

Next == Refuse \/ Rerun \/ Upload \/ GenerateSummary \/ GetAnswer \/ Export

Spec == Init /\ [][Next]_vars

(***************************************************************************)
(* The ingestion specification: a session whose file_uploader has just     *)
(* received up to MaxFiles PDFs of up to MaxPages pages each; the runs     *)
(* that follow extract their text.                                         *)
(***************************************************************************)
InitIngest ==
  /\ GROQ_API_KEY \in BOOLEAN
  /\ GEMINI_API_KEY \in BOOLEAN
  /\ ~NoKeys(GROQ_API_KEY, GEMINI_API_KEY)
  /\ phase = "running"
  /\ error_shown = FALSE
  /\ session_state = SessionInit(EmptySession)
  /\ uploaded_files \in Uploads
  /\ pdf_text = <<>>
  /\ request = NoRequest
  /\ response = NoResponse
  /\ ret = NoCall
  /\ report = NoReport
  /\ last = "upload"

NextIngest == Rerun

SpecIngest == InitIngest /\ [][NextIngest]_vars

(***************************************************************************)
(* Properties.                                                             *)
(***************************************************************************)
GatewayRun == {"summary", "ask"}

TagOf(provider) == IF provider = "Groq" THEN GroqTag ELSE GeminiTag

AssistantMessage(text) == [role |-> "assistant", content |-> text]

IsPrefix(s, t) == Len(s) <= Len(t) /\ SubSeq(t, 1, Len(s)) = s

\* C1: whatever the provider call does, also when the provider's client was
\* never initialised, ask_groq / ask_gemini return a string and never raise;
\* after a failure the string begins with the error tag of the provider that
\* was called.
C1_GatewayNeverRaises ==
  last \in GatewayRun =>
    /\ ret.kind = "return"
    /\ response.provider \in {"Groq", "Gemini"}
    /\ response.raised =>
         /\ ret.value # <<>>
         /\ ret.value[1] = TagOf(response.provider)
         /\ ret.value[1] # TagOf(IF response.provider = "Groq" THEN "Gemini" ELSE "Groq")

\* C1 witness: ask_groq was called without a `client` and returned the tagged string
C1_Witness ==
  /\ last \in GatewayRun
  /\ ~GROQ_API_KEY
  /\ response.provider = "Groq"
  /\ response.exc = "NameError"
  /\ ret = Returned(<<GroqTag>> \o NameErrorText)

C3_OneLeadingSystemMessage ==
  phase = "running" =>
    /\ Len(chat_history) >= 1
    /\ chat_history[1] = SystemMessage
    /\ \A i \in 2..Len(chat_history) : chat_history[i].role # "system"

\* C3 witness: an export after summary and ask actions have filled the sequences
C3_Witness ==
  /\ last = "export"
  /\ Len(chat_history) = MaxHistory
  /\ qa_list # <<>>
  /\ Has(session_state, "summary")

\* C4: after a successful gateway call the message sequence is the sequence
\* before the call followed by one assistant message carrying the returned
\* text, which is the provider's completion; and over every step the old
\* sequence is a prefix of the new one.
C4_SuccessAppendsReturned ==
  [][/\ IsPrefix(chat_history, chat_history')
     /\ (last' \in GatewayRun /\ ~response'.raised) =>
          /\ ret' = Returned(response'.text)
          /\ chat_history' = chat_history \o <<AssistantMessage(ret'.value)>>]_vars

\* C4 witness: a second successful call has appended its completion after the first
C4_Witness ==
  /\ last \in GatewayRun
  /\ ~response.raised
  /\ Len(chat_history) = 3
  /\ chat_history[3] = AssistantMessage(ret.value)
  /\ chat_history[2].content # chat_history[3].content

\* C5: a "Get Answer" run appends exactly one pair (question, string returned
\* by the gateway) to qa_list, for a completion and for a failure string
\* alike; every other run leaves qa_list as it is.
C5_AskAppendsOnePair ==
  [][IF last' = "ask"
     THEN \E query \in Queries :
            /\ qa_list' = Append(qa_list, <<query, ret'.value>>)
            /\ request' # NoRequest =>
                 IF request'.provider = "Groq"
                 THEN request'.messages[Len(request'.messages)].content
                        = AnswerPrompt(pdf_text', query)
                 ELSE request'.contents = AnswerPrompt(pdf_text', query)
     ELSE qa_list' = qa_list]_vars

\* C5 witness: two asks, one answered by a completion and one by a failure string
C5_Witness ==
  /\ Len(qa_list) = 2
  /\ \E i, j \in 1..2 :
       /\ qa_list[i][2][1] \in {GroqTag, GeminiTag}
       /\ qa_list[j][2] \in Outputs

HasHeading(title) ==
  \E i \in 1..Len(report.elements) :
    /\ report.elements[i].style = "Heading2"
    /\ report.elements[i].text = <<"<b>">> \o title \o <<"</b>">>

HasQuestionHeading ==
  \E i \in 1..Len(report.elements) :
    /\ report.elements[i].style = "Heading2"
    /\ report.elements[i].text[2] = QuestionLabel

\* C6: an exported report has no heading for a section whose source is
\* empty: no summary heading without a summary, no Q/A heading without
\* pairs, no conversation-history heading unless there are messages beyond
\* the initial system message, no full-text heading without text.
C6_EmptySectionsOmitted ==
  report.built =>
    /\ Get(session_state, "summary", <<>>) = <<>> => ~HasHeading(SummaryTitle)
    /\ qa_list = <<>> => ~HasQuestionHeading
    /\ Len(chat_history) <= 1 => ~HasHeading(HistoryTitle)
    /\ pdf_text = <<>> => ~HasHeading(FullTextTitle)

\* the prompt handed to run_model in the gateway run that led to this state
PromptOfRun ==
  IF last = "summary" THEN SummaryPrompt(pdf_text)
  ELSE AnswerPrompt(pdf_text, qa_list[Len(qa_list)][1])

\* C7: a request to Groq carries the messages stored when the call was made
\* followed by one user message with the prompt, and max_tokens of 800; a
\* request to Gemini carries the prompt text and nothing of the stored
\* messages.
C7_RequestShape ==
  [][(last' \in GatewayRun /\ request' # NoRequest) =>
       /\ request'.provider = response'.provider
       /\ IF request'.provider = "Groq"
          THEN /\ request'.messages
                    = chat_history \o <<[role |-> "user", content |-> PromptOfRun']>>
               /\ request'.max_tokens = 800
          ELSE /\ request'.provider = "Gemini"
               /\ request'.contents = PromptOfRun'
               /\ DOMAIN request' = {"provider", "model", "contents"}]_vars

\* C7 witness: a Groq request that carried two stored messages and the prompt
C7_Witness ==
  /\ last \in GatewayRun
  /\ request # NoRequest
  /\ request.provider = "Groq"
  /\ Len(request.messages) = 3
  /\ request.messages[2].role = "assistant"

\* C8: with neither key configured the process shows the error and stops:
\* no session state, no upload, no gateway call and no export ever exist;
\* with at least one key the first run starts the session.
C8_RefusesWithoutKeys ==
  /\ (~GROQ_API_KEY /\ ~GEMINI_API_KEY) =>
       /\ phase # "running"
       /\ last # "boot" => (phase = "stopped" /\ error_shown)
       /\ session_state = EmptySession
       /\ uploaded_files = <<>>
       /\ request = NoRequest
       /\ response = NoResponse
       /\ ret = NoCall
       /\ report = NoReport
  /\ ((GROQ_API_KEY \/ GEMINI_API_KEY) /\ last # "boot") =>
       /\ phase = "running"
       /\ ~error_shown
       /\ Has(session_state, "chat_history")
       /\ Has(session_state, "qa_list")

\* C8 witness: the run without keys has happened
C8_Witness ==
  /\ ~GROQ_API_KEY
  /\ ~GEMINI_API_KEY
  /\ last = "refuse"
  /\ phase = "stopped"
  /\ error_shown

RECURSIVE ConcatAll(_)
ConcatAll(seqs) == IF seqs = <<>> THEN <<>> ELSE Head(seqs) \o ConcatAll(Tail(seqs))

\* the text of a PDF: its pages' texts in page order, nothing for a None page
FileText(file) ==
  ConcatAll([i \in 1..Len(file) |-> IF file[i].none THEN <<>> ELSE file[i].text])

\* the texts of the PDFs in upload order, without separator
FlatText(files) == ConcatAll([i \in 1..Len(files) |-> FileText(files[i])])

\* t is s without its leading and trailing whitespace
IsTrimOf(t, s) ==
  /\ t = <<>> \/ (t[1] \notin Whitespace /\ t[Len(t)] \notin Whitespace)
  /\ \E i, j \in 0..Len(s) :
       /\ i + j <= Len(s)
       /\ t = SubSeq(s, i + 1, Len(s) - j)
       /\ \A k \in 1..i : s[k] \in Whitespace
       /\ \A k \in (Len(s) - j + 1)..Len(s) : s[k] \in Whitespace

\* C9: for every non-empty upload, after any number of runs pdf_text is the
\* whitespace-trimmed concatenation, without separator, of the page texts in
\* upload order then page order, a page without text contributing nothing.
C9_TrimmedConcatenation ==
  (last = "rerun" /\ uploaded_files # <<>>) =>
    IsTrimOf(pdf_text, FlatText(uploaded_files))

\* C9 witness: two PDFs of two pages each, one page without text, and
\* whitespace trimmed at both ends
C9_Witness ==
  /\ last = "rerun"
  /\ Len(uploaded_files) = 2
  /\ \A i \in 1..2 : Len(uploaded_files[i]) = 2
  /\ \E i, k \in 1..2 : uploaded_files[i][k].none
  /\ pdf_text # <<>>
  /\ Len(pdf_text) + 2 <= Len(FlatText(uploaded_files))

\* C10: no user message is ever stored: the stored sequence is the system
\* message followed by assistant messages only, and a Groq request holds
\* exactly one user message, its last, which is not stored.
C10_NoUserMessageStored ==
  /\ \A i \in 1..Len(chat_history) :
       chat_history[i].role = (IF i = 1 THEN "system" ELSE "assistant")
  /\ (request # NoRequest /\ request.provider = "Groq") =>
       /\ request.messages[Len(request.messages)].role = "user"
       /\ Cardinality({i \in 1..Len(request.messages) :
                         request.messages[i].role = "user"}) = 1

\* C10 witness: a Groq call that followed an earlier successful call
C10_Witness ==
  /\ last = "ask"
  /\ request # NoRequest
  /\ request.provider = "Groq"
  /\ Len(request.messages) >= 3
  /\ ~response.raised
  /\ Len(chat_history) = 3

====
